---- MODULE Spec2Model ----
(***************************************************************************)
(* Model of the orbit ingestion core: schema validation (schemas/base.py,  *)
(* schemas/stix.py), the adapter registry and adapters (adapters/), and    *)
(* the pipeline entrypoint (ingestion/pipeline.py).                        *)
(*                                                                         *)
(* Python strings are modelled as sequences of one-character strings, so   *)
(* the regular expression STIX_ID_PATTERN and str.split are computed       *)
(* character by character.  A dict is a function whose DOMAIN is its set   *)
(* of keys.                                                                *)
(*                                                                         *)
(* A session exercises one layer: one validator call, a sequence of        *)
(* pipeline runs, a sequence of adapter runs, or NumRuns concurrent runs.  *)
(***************************************************************************)
EXTENDS Integers, Sequences, FiniteSets, TLC

VARIABLES
    arg,        \* schema layer: the raw object / dataclass fields under validation
    fn,         \* schema layer: the function that was called on arg ("" before the call)
    outcome,    \* schema layer: what the call returned or raised
    fs,         \* content of the data file a run reads
    config,     \* pipeline: the IngestConfig of the current run
    stage,      \* pipeline: position of the current run
    result,     \* pipeline: what ingest(config) returned or raised
    prev,       \* pipeline: the previous completed run (config, input, result)
    source,     \* adapter layer: the source identifier given to get_adapter
    apc,        \* adapter layer: position in get_adapter -> fetch -> normalize
    adapter,    \* adapter layer: what get_adapter returned or raised
    raw,        \* adapter layer: what fetch returned or raised
    normalized, \* adapter layer: what normalize returned or raised
    aprev,      \* adapter layer: the previous completed adapter run
    conc        \* concurrent runs: the module globals and each run's frame

vars == <<arg, fn, outcome, fs, config, stage, result, prev,
          source, apc, adapter, raw, normalized, aprev, conc>>

schemaVars == <<arg, fn, outcome>>
pipelineVars == <<config, stage, result, prev>>
adapterVars == <<source, apc, adapter, raw, normalized, aprev>>

----------------------------------------------------------------------------
(* Characters and strings *)

Lower == {"a", "b", "c", "d", "e", "f", "g", "h", "i", "j", "k", "l", "m",
          "n", "o", "p", "q", "r", "s", "t", "u", "v", "w", "x", "y", "z"}

Digit == {"0", "1", "2", "3", "4", "5", "6", "7", "8", "9"}

HexDigit == Digit \cup {"a", "b", "c", "d", "e", "f"}

Rep(c, n) == [i \in 1..n |-> c]

\* the empty string; falsy in Python
EmptyStr == <<>>

\* Python's None (falsy; not a string)
NoneVal == <<"None">>

\* a key that a dict does not have
Absent == <<"Absent">>

Dash2 == <<"-", "-">>

\* 8-4-4-4-12 groups of the character c
UuidOf(c) ==
    Rep(c, 8) \o <<"-">> \o Rep(c, 4) \o <<"-">> \o Rep(c, 4) \o <<"-">>
        \o Rep(c, 4) \o <<"-">> \o Rep(c, 12)

\* [0-9a-f]{8}-[0-9a-f]{4}-[0-9a-f]{4}-[0-9a-f]{4}-[0-9a-f]{12}
MatchUuid(s) ==
    /\ Len(s) = 36
    /\ \A i \in 1..36 :
          IF i \in {9, 14, 19, 24} THEN s[i] = "-" ELSE s[i] \in HexDigit

\* Length of the part of s that "$" can end at: Python's "$" matches at the
\* end of the string and also just before one trailing newline.
DollarEnds(s) ==
    {Len(s)} \cup (IF Len(s) > 0 /\ s[Len(s)] = "\n" THEN {Len(s) - 1} ELSE {})

\* ^[a-z][a-z0-9-]+--<uuid>$ applied to the first n characters of s
MatchUpTo(s, n) ==
    /\ n >= 40
    /\ s[1] \in Lower
    /\ \A i \in 2..(n - 38) : s[i] \in (Lower \cup Digit \cup {"-"})
    /\ s[n - 37] = "-"
    /\ s[n - 36] = "-"
    /\ MatchUuid(SubSeq(s, n - 35, n))

\* STIX_ID_PATTERN.match(s) is not None
STIX_ID_PATTERN(s) == \E n \in DollarEnds(s) : MatchUpTo(s, n)

\* s.split("--")[0]: the part of s before the first "--" (all of s if none)
SplitFirst(s) ==
    LET at == {i \in 1..(Len(s) - 1) : s[i] = "-" /\ s[i + 1] = "-"}
    IN  IF at = {} THEN s
        ELSE SubSeq(s, 1, (CHOOSE i \in at : \A j \in at : i <= j) - 1)

ATTACK_OBJECT_TYPES == {
    <<"a", "t", "t", "a", "c", "k", "-", "p", "a", "t", "t", "e", "r", "n">>,
    <<"c", "a", "m", "p", "a", "i", "g", "n">>,
    <<"c", "o", "u", "r", "s", "e", "-", "o", "f", "-", "a", "c", "t", "i", "o", "n">>,
    <<"i", "d", "e", "n", "t", "i", "t", "y">>,
    <<"i", "n", "t", "r", "u", "s", "i", "o", "n", "-", "s", "e", "t">>,
    <<"m", "a", "l", "w", "a", "r", "e">>,
    <<"m", "a", "r", "k", "i", "n", "g", "-", "d", "e", "f", "i", "n", "i", "t", "i", "o", "n">>,
    <<"r", "e", "l", "a", "t", "i", "o", "n", "s", "h", "i", "p">>,
    <<"t", "o", "o", "l">>,
    <<"x", "-", "m", "i", "t", "r", "e", "-", "d", "a", "t", "a", "-", "c", "o", "m", "p", "o", "n", "e", "n", "t">>,
    <<"x", "-", "m", "i", "t", "r", "e", "-", "d", "a", "t", "a", "-", "s", "o", "u", "r", "c", "e">>,
    <<"x", "-", "m", "i", "t", "r", "e", "-", "m", "a", "t", "r", "i", "x">>,
    <<"x", "-", "m", "i", "t", "r", "e", "-", "t", "a", "c", "t", "i", "c">>}

\* the type names the inputs use
AttackPattern == <<"a", "t", "t", "a", "c", "k", "-", "p", "a", "t", "t", "e", "r", "n">>
Malware == <<"m", "a", "l", "w", "a", "r", "e">>
Tool == <<"t", "o", "o", "l">>
Relationship == <<"r", "e", "l", "a", "t", "i", "o", "n", "s", "h", "i", "p">>
UnknownType == <<"u", "n", "k", "n", "o", "w", "n", "-", "t", "y", "p", "e">>
MalwareX == <<"m", "a", "l", "w", "a", "r", "e", "-", "-", "x">>
Uses == <<"u", "s", "e", "s">>
InvalidId == <<"i", "n", "v", "a", "l", "i", "d", "-", "i", "d">>

----------------------------------------------------------------------------
(* Outcomes of a call: a returned value or a raised exception *)

Msg(tmpl, args) == [tmpl |-> tmpl, args |-> args]

NoMsg == Msg("", <<>>)

\* the call returned v, an instance of class cls (validate() returns None)
Ok(cls, v) == [raised |-> FALSE, exc |-> "", msg |-> NoMsg, cls |-> cls, value |-> v]

Raise(exc, msg) == [raised |-> TRUE, exc |-> exc, msg |-> msg, cls |-> "", value |-> <<>>]

NotCalled == [raised |-> FALSE, exc |-> "", msg |-> NoMsg, cls |-> "", value |-> <<>>]

ReturnsNone == Ok("NoneType", <<>>)

ValidationError(tmpl, args) == Raise("ValidationError", Msg(tmpl, args))

\* Python truthiness of a str | None value: "not x"
Falsy(x) == x = EmptyStr \/ x = NoneVal

\* dict.get(key, default)
Get(d, key, default) == IF key \in DOMAIN d THEN d[key] ELSE default

----------------------------------------------------------------------------
(* schemas/base.py *)

BaseNode_validate(self) ==
    IF Falsy(self.id) THEN ValidationError("Node ID cannot be empty", <<>>)
    ELSE IF Falsy(self.type) THEN ValidationError("Node type cannot be empty", <<>>)
    ELSE ReturnsNone

\* BaseEdge.validate without the self-reference check (lines 75-78 dropped)
BaseEdge_validate_NoSelfLoop(self) ==
    IF Falsy(self.source_ref)
    THEN ValidationError("Edge source_ref cannot be empty", <<>>)
    ELSE IF Falsy(self.target_ref)
    THEN ValidationError("Edge target_ref cannot be empty", <<>>)
    ELSE IF Falsy(self.relationship_type)
    THEN ValidationError("Edge relationship_type cannot be empty", <<>>)
    ELSE ReturnsNone

\* BaseEdge.validate with the self-loop check moved before the emptiness checks
BaseEdge_validate_SelfLoopFirst(self) ==
    IF self.source_ref = self.target_ref
    THEN ValidationError("Self-referential edge not allowed: {}", <<self.source_ref>>)
    ELSE IF Falsy(self.source_ref)
    THEN ValidationError("Edge source_ref cannot be empty", <<>>)
    ELSE IF Falsy(self.target_ref)
    THEN ValidationError("Edge target_ref cannot be empty", <<>>)
    ELSE IF Falsy(self.relationship_type)
    THEN ValidationError("Edge relationship_type cannot be empty", <<>>)
    ELSE ReturnsNone

BaseEdge_validate(self) ==
    IF Falsy(self.source_ref)
    THEN ValidationError("Edge source_ref cannot be empty", <<>>)
    ELSE IF Falsy(self.target_ref)
    THEN ValidationError("Edge target_ref cannot be empty", <<>>)
    ELSE IF Falsy(self.relationship_type)
    THEN ValidationError("Edge relationship_type cannot be empty", <<>>)
    ELSE IF self.source_ref = self.target_ref
    THEN ValidationError("Self-referential edge not allowed: {}", <<self.source_ref>>)
    ELSE ReturnsNone

----------------------------------------------------------------------------
(* schemas/stix.py *)

\* STIXObject.validate without the known-type check (lines 76-82 dropped)
STIXObject_validate_NoKnownTypeCheck(self) ==
    LET base == BaseNode_validate(self)
        id_type == SplitFirst(self.id)
    IN  IF base.raised THEN base
        ELSE IF ~STIX_ID_PATTERN(self.id)
        THEN ValidationError(
                 "Invalid STIX ID format: {}. Expected pattern: <type>--<uuid>",
                 <<self.id>>)
        ELSE IF id_type # self.type
        THEN ValidationError(
                 "STIX ID type mismatch: ID has '{}', but type field is '{}'",
                 <<id_type, self.type>>)
        ELSE ReturnsNone

\* STIXObject.validate without the id-prefix / type comparison (lines 68-74 dropped)
STIXObject_validate_NoPrefixCheck(self) ==
    LET base == BaseNode_validate(self)
    IN  IF base.raised THEN base
        ELSE IF ~STIX_ID_PATTERN(self.id)
        THEN ValidationError(
                 "Invalid STIX ID format: {}. Expected pattern: <type>--<uuid>",
                 <<self.id>>)
        ELSE IF self.type \notin ATTACK_OBJECT_TYPES
        THEN ValidationError("Unknown STIX type: {}. Known types: ...", <<self.type>>)
        ELSE ReturnsNone

STIXObject_validate(self) ==
    LET base == BaseNode_validate(self)
        id_type == SplitFirst(self.id)
    IN  IF base.raised THEN base
        ELSE IF ~STIX_ID_PATTERN(self.id)
        THEN ValidationError(
                 "Invalid STIX ID format: {}. Expected pattern: <type>--<uuid>",
                 <<self.id>>)
        ELSE IF id_type # self.type
        THEN ValidationError(
                 "STIX ID type mismatch: ID has '{}', but type field is '{}'",
                 <<id_type, self.type>>)
        ELSE IF self.type \notin ATTACK_OBJECT_TYPES
        THEN ValidationError("Unknown STIX type: {}. Known types: ...", <<self.type>>)
        ELSE ReturnsNone

\* STIXRelationship.validate without the target_ref check (lines 120-123 dropped)
STIXRelationship_validate_NoTargetCheck(self) ==
    LET base == BaseEdge_validate(self)
    IN  IF base.raised THEN base
        ELSE IF self.type # Relationship
        THEN ValidationError(
                 "STIX relationship type must be 'relationship', got '{}'",
                 <<self.type>>)
        ELSE IF ~STIX_ID_PATTERN(self.source_ref)
        THEN ValidationError("Invalid source_ref STIX ID: {}", <<self.source_ref>>)
        ELSE ReturnsNone

\* STIXRelationship.validate without the call of super().validate() (line 108 dropped)
STIXRelationship_validate_NoSuper(self) ==
    IF self.type # Relationship
    THEN ValidationError(
             "STIX relationship type must be 'relationship', got '{}'",
             <<self.type>>)
    ELSE IF ~STIX_ID_PATTERN(self.source_ref)
    THEN ValidationError("Invalid source_ref STIX ID: {}", <<self.source_ref>>)
    ELSE IF ~STIX_ID_PATTERN(self.target_ref)
    THEN ValidationError("Invalid target_ref STIX ID: {}", <<self.target_ref>>)
    ELSE ReturnsNone

STIXRelationship_validate(self) ==
    LET base == BaseEdge_validate(self)
    IN  IF base.raised THEN base
        ELSE IF self.type # Relationship
        THEN ValidationError(
                 "STIX relationship type must be 'relationship', got '{}'",
                 <<self.type>>)
        ELSE IF ~STIX_ID_PATTERN(self.source_ref)
        THEN ValidationError("Invalid source_ref STIX ID: {}", <<self.source_ref>>)
        ELSE IF ~STIX_ID_PATTERN(self.target_ref)
        THEN ValidationError("Invalid target_ref STIX ID: {}", <<self.target_ref>>)
        ELSE ReturnsNone

\* STIXRelationship(source_ref=..., target_ref=..., relationship_type=..., id=...)
\* built from a raw dict; the type field keeps its default "relationship"
RelFromDict(obj) ==
    [source_ref |-> Get(obj, "source_ref", EmptyStr),
     target_ref |-> Get(obj, "target_ref", EmptyStr),
     relationship_type |-> Get(obj, "relationship_type", EmptyStr),
     id |-> Get(obj, "id", NoneVal),
     type |-> Relationship]

\* STIXObject(id=obj["id"], type=obj["type"], ...)
NodeFromDict(obj) == [id |-> obj["id"], type |-> obj["type"]]

\* validate_stix_object that also holds a relationship's id to the STIX id
\* grammar
validate_stix_object_ChecksRelId(obj) ==
    IF "type" \notin DOMAIN obj
    THEN ValidationError("STIX object missing 'type' field", <<>>)
    ELSE IF "id" \notin DOMAIN obj
    THEN ValidationError("STIX object missing 'id' field", <<>>)
    ELSE IF obj["type"] = Relationship
    THEN LET rel == RelFromDict(obj)
             v == STIXRelationship_validate(rel)
         IN  IF ~STIX_ID_PATTERN(obj["id"])
             THEN ValidationError(
                      "Invalid STIX ID format: {}. Expected pattern: <type>--<uuid>",
                      <<obj["id"]>>)
             ELSE IF v.raised THEN v ELSE Ok("STIXRelationship", rel)
    ELSE LET node == NodeFromDict(obj)
             v == STIXObject_validate(node)
         IN  IF v.raised THEN v ELSE Ok("STIXObject", node)

validate_stix_object(obj) ==
    IF "type" \notin DOMAIN obj
    THEN ValidationError("STIX object missing 'type' field", <<>>)
    ELSE IF "id" \notin DOMAIN obj
    THEN ValidationError("STIX object missing 'id' field", <<>>)
    ELSE IF obj["type"] = Relationship
    THEN LET rel == RelFromDict(obj)
             v == STIXRelationship_validate(rel)
         IN  IF v.raised THEN v ELSE Ok("STIXRelationship", rel)
    ELSE LET node == NodeFromDict(obj)
             v == STIXObject_validate(node)
         IN  IF v.raised THEN v ELSE Ok("STIXObject", node)

----------------------------------------------------------------------------
(* Inputs of the schema layer *)

IdPrefixes ==
    {AttackPattern, Malware, Tool, Relationship, UnknownType, MalwareX,
     <<"a">>, <<"M", "a", "l", "w", "a", "r", "e">>}

UuidVals ==
    {UuidOf("1"), UuidOf("f"), UuidOf("g"), UuidOf("F"),
     SubSeq(UuidOf("1"), 1, 35)}

IdVals ==
    {p \o Dash2 \o u \o nl : p \in IdPrefixes, u \in UuidVals, nl \in {<<>>, <<"\n">>}}
        \cup {EmptyStr, InvalidId}

TypeVals == {EmptyStr, AttackPattern, Malware, Tool, Relationship, UnknownType, MalwareX}

Id1 == AttackPattern \o Dash2 \o UuidOf("1")
Id2 == Malware \o Dash2 \o UuidOf("2")
Id3 == Relationship \o Dash2 \o UuidOf("3")

RefVals == {EmptyStr, InvalidId, Id1, Id2, Id2 \o <<"\n">>, MalwareX \o Dash2 \o UuidOf("1")}

RelTypeVals == {EmptyStr, Uses}

\* a dict literal with the keys whose value is not Absent
MkDict(t, i, s, g, r) ==
    LET all == [type |-> t, id |-> i, source_ref |-> s, target_ref |-> g,
                relationship_type |-> r]
    IN  [k \in {k \in DOMAIN all : all[k] # Absent} |-> all[k]]

NodeInputs ==
    {MkDict(t, i, Absent, Absent, Absent) :
        t \in TypeVals \cup {Absent}, i \in IdVals \cup {Absent}}

EdgeInputs ==
    {MkDict(t, i, s, g, r) :
        t \in {Absent, Relationship, Malware, EmptyStr},
        i \in {Absent, Id3, InvalidId, EmptyStr},
        s \in RefVals \cup {Absent},
        g \in RefVals \cup {Absent},
        r \in RelTypeVals \cup {Absent}}

Inputs == NodeInputs \cup EdgeInputs

NodeKeys == {"id", "type"}
EdgeKeys == {"source_ref", "target_ref", "relationship_type"}

----------------------------------------------------------------------------
(* Schema layer: one call of a validator on the input *)

\* BaseNode(id=..., type=...).validate()
CallBaseNodeValidate ==
    /\ fn = ""
    /\ DOMAIN arg = NodeKeys
    /\ fn' = "BaseNode.validate"
    /\ outcome' = BaseNode_validate(arg)
    /\ UNCHANGED arg

\* STIXObject(id=..., type=...).validate()
CallSTIXObjectValidate ==
    /\ fn = ""
    /\ DOMAIN arg = NodeKeys
    /\ fn' = "STIXObject.validate"
    /\ outcome' = STIXObject_validate(arg)
    /\ UNCHANGED arg

\* BaseEdge(source_ref=..., target_ref=..., relationship_type=...).validate()
CallBaseEdgeValidate ==
    /\ fn = ""
    /\ DOMAIN arg = EdgeKeys
    /\ fn' = "BaseEdge.validate"
    /\ outcome' = BaseEdge_validate(arg)
    /\ UNCHANGED arg

\* STIXRelationship(source_ref=..., target_ref=..., relationship_type=...,
\*                  id=..., type=...).validate(); id defaults to None and
\* type to "relationship"
RelFromFields(a) ==
    [source_ref |-> a["source_ref"],
     target_ref |-> a["target_ref"],
     relationship_type |-> a["relationship_type"],
     id |-> Get(a, "id", NoneVal),
     type |-> Get(a, "type", Relationship)]

CallSTIXRelationshipValidate ==
    /\ fn = ""
    /\ EdgeKeys \subseteq DOMAIN arg
    /\ fn' = "STIXRelationship.validate"
    /\ outcome' = STIXRelationship_validate(RelFromFields(arg))
    /\ UNCHANGED arg

\* validate_stix_object(obj)
CallValidateStixObject ==
    /\ fn = ""
    /\ fn' = "validate_stix_object"
    /\ outcome' = validate_stix_object(arg)
    /\ UNCHANGED arg


----------------------------------------------------------------------------
(* The data file and the batches it can hold *)

\* longest object list of a bundle
MaxBatch == 3

\* attack-pattern node, malware node, relationship between them, and a node
\* whose id prefix differs from its type
N1 == MkDict(AttackPattern, Id1, Absent, Absent, Absent)
N2 == MkDict(Malware, Id2, Absent, Absent, Absent)
R12 == MkDict(Relationship, Id3, Id1, Id2, Uses)
NBad == MkDict(Tool, Id2, Absent, Absent, Absent)

BatchObjs == {N1, N2, R12, NBad}

Batches == UNION {[1..n -> BatchObjs] : n \in 0..MaxBatch}

\* the only path that may hold a file; every other path is missing
DataPath == "attack.json"

Paths == {DataPath, "nonexistent.json"}

IsFile(kind, data) == [kind |-> kind, data |-> data]

\* a STIX bundle {"type": "bundle", "objects": [...]}
Bundle(objects) == [type |-> <<"b", "u", "n", "d", "l", "e">>, objects |-> objects]

\* a JSON object without the "objects" key
BundleNoObjects == [type |-> <<"b", "u", "n", "d", "l", "e">>]

Contents ==
    {IsFile("missing", <<>>), IsFile("unreadable", <<>>), IsFile("notjson", <<>>),
     IsFile("json", BundleNoObjects)}
        \cup {IsFile("json", Bundle(b)) : b \in Batches}

\* what is at data_path
FileAt(data_path) == IF data_path = DataPath THEN fs ELSE IsFile("missing", <<>>)

----------------------------------------------------------------------------
(* adapters/__init__.py, adapters/attack.py, adapters/d3fend.py *)

ADAPTERS == [attack |-> "AttackAdapter", d3fend |-> "D3FENDAdapter"]

Sources == {"attack", "d3fend", "unknown_source"}

get_adapter(src) ==
    IF src \notin DOMAIN ADAPTERS
    THEN Raise("ValueError",
               Msg("Unknown source: {}. Available: {}", <<src, "attack, d3fend">>))
    ELSE Ok(ADAPTERS[src], <<>>)

AttackAdapter_fetch(data_path) ==
    LET file == FileAt(data_path)
    IN  IF file.kind = "missing"
        THEN Raise("FileNotFoundError", Msg("ATT&CK data not found: {}", <<data_path>>))
        ELSE IF file.kind = "unreadable"
        THEN Raise("PermissionError", Msg("{}", <<data_path>>))
        ELSE IF file.kind = "notjson"
        THEN Raise("JSONDecodeError", Msg("{}", <<data_path>>))
        ELSE Ok("dict", file.data)

\* normalize with raw.get("objects", []) in place of the membership test
AttackAdapter_normalize_DefaultEmpty(rawdata) ==
    IF "objects" \notin DOMAIN rawdata
    THEN Ok("list", <<>>)
    ELSE Ok("list", rawdata["objects"])

AttackAdapter_normalize(rawdata) ==
    IF "objects" \notin DOMAIN rawdata
    THEN Raise("ValueError", Msg("Invalid STIX bundle: missing 'objects' field", <<>>))
    ELSE Ok("list", rawdata["objects"])

NotImplemented ==
    Raise("NotImplementedError", Msg("D3FEND adapter not yet implemented. ...", <<>>))

D3FENDAdapter_fetch(data_path) == NotImplemented

D3FENDAdapter_normalize(rawdata) == NotImplemented

\* adapter.fetch(data_path), dispatched on the adapter's class
Fetch(cls, data_path) ==
    IF cls = "AttackAdapter" THEN AttackAdapter_fetch(data_path)
    ELSE D3FENDAdapter_fetch(data_path)

\* adapter.normalize(raw)
Normalize(cls, rawdata) ==
    IF cls = "AttackAdapter" THEN AttackAdapter_normalize(rawdata)
    ELSE D3FENDAdapter_normalize(rawdata)

----------------------------------------------------------------------------
(* Adapter layer: get_adapter(source), then fetch, then normalize; an        *)
(* exception ends the sequence.                                             *)

NoRun == [source |-> "", input |-> IsFile("missing", <<>>),
          adapter |-> NotCalled, raw |-> NotCalled, normalized |-> NotCalled]

ThisRun == [source |-> source, input |-> FileAt(DataPath),
            adapter |-> adapter, raw |-> raw, normalized |-> normalized]

CallGetAdapter ==
    /\ apc = "idle"
    /\ adapter' = get_adapter(source)
    /\ apc' = IF adapter'.raised THEN "raised" ELSE "got"
    /\ UNCHANGED <<source, raw, normalized, aprev>>

CallFetch ==
    /\ apc = "got"
    /\ raw' = Fetch(adapter.cls, DataPath)
    /\ apc' = IF raw'.raised THEN "raised" ELSE "fetched"
    /\ UNCHANGED <<source, adapter, normalized, aprev>>

CallNormalize ==
    /\ apc = "fetched"
    /\ normalized' = Normalize(adapter.cls, raw.value)
    /\ apc' = IF normalized'.raised THEN "raised" ELSE "normalized"
    /\ UNCHANGED <<source, adapter, raw, aprev>>

\* the caller starts over with a source of its choice
AdapterAgain ==
    /\ apc \in {"raised", "normalized"}
    /\ \E src \in Sources : source' = src
    /\ aprev' = ThisRun
    /\ apc' = "idle"
    /\ adapter' = NotCalled
    /\ raw' = NotCalled
    /\ normalized' = NotCalled


----------------------------------------------------------------------------
(* ingestion/pipeline.py *)

\* IngestConfig(source, data_path, validate=True, fail_on_invalid=True)
IngestConfig(src, data_path, validate, fail_on_invalid) ==
    [source |-> src, data_path |-> data_path, validate |-> validate,
     fail_on_invalid |-> fail_on_invalid]

Configs ==
    {IngestConfig(src, p, v, f) :
        src \in Sources, p \in Paths, v \in BOOLEAN, f \in BOOLEAN}

\* IngestResult(objects, errors, metadata)
IngestResult(objects, errors, metadata) ==
    Ok("IngestResult", [objects |-> objects, errors |-> errors, metadata |-> metadata])

\* IngestResult.is_valid
is_valid(res) == Len(res.value.errors) = 0

\* IngestResult.object_count
object_count(res) == Len(res.value.objects)

\* ingest whose metadata carries a reading that differs from run to run
\* (an elapsed time, a run counter)
ingest_Timed(cfg) ==
    IngestResult(<<>>,
                 <<Msg("Pipeline not yet implemented", <<>>)>>,
                 [source |-> cfg.source, path |-> cfg.data_path,
                  elapsed |-> IF prev.result.cls = "" THEN 1 ELSE 2])

\* ingest(config): the body is the single return statement
ingest(cfg) ==
    IngestResult(<<>>,
                 <<Msg("Pipeline not yet implemented", <<>>)>>,
                 [source |-> cfg.source, path |-> cfg.data_path])

----------------------------------------------------------------------------
(* Pipeline layer: a caller configures a run and calls ingest(config)       *)

NoPrev == [config |-> IngestConfig("", "", TRUE, TRUE),
           input |-> IsFile("missing", <<>>), result |-> NotCalled]

CallIngest ==
    /\ stage = "Idle"
    /\ result' = ingest(config)
    /\ stage' = IF result'.raised THEN "Aborted" ELSE "Done"
    /\ UNCHANGED <<config, prev>>

\* the caller starts another run with a configuration of its choice
RunAgain ==
    /\ stage \in {"Done", "Aborted"}
    /\ \E cfg \in Configs : config' = cfg
    /\ prev' = [config |-> config, input |-> FileAt(config.data_path), result |-> result]
    /\ stage' = "Idle"
    /\ result' = NotCalled

----------------------------------------------------------------------------
(* Concurrent runs: threads of one process, each making one pipeline run.   *)
(* A run is either a call of ingest(config) or the sequence get_adapter,    *)
(* fetch, normalize that ingest's docstring lays out; its locals live in its *)
(* own frame.  The module globals are the ADAPTERS dict and the              *)
(* ATTACK_OBJECT_TYPES set; no statement of the code assigns to them.       *)

NumRuns == 2

RunKinds == {"ingest", "adapter"}

\* the configurations of the concurrent runs (default switches)
ConcConfigs == {IngestConfig(src, p, TRUE, TRUE) : src \in Sources, p \in Paths}

\* the snapshots that the concurrent runs read
ConcContents ==
    {IsFile("missing", <<>>), IsFile("json", BundleNoObjects),
     IsFile("json", Bundle(<<N1, R12>>))}

NewRun(kind, cfg) ==
    [kind |-> kind, config |-> cfg, pc |-> "ready",
     adapter |-> NotCalled, raw |-> NotCalled, result |-> NotCalled]

NoConc == [registry |-> ADAPTERS, types |-> ATTACK_OBJECT_TYPES, runs |-> <<>>]

Runs == DOMAIN conc.runs

\* the run returns (or raises) res: its frame is gone, the caller has res
Return(run, res) == [run EXCEPT !.pc = "returned", !.result = res]

\* thread r enters ingest(config): the frame exists, nothing is evaluated yet
ConcCallIngest(r) ==
    /\ conc.runs[r].kind = "ingest"
    /\ conc.runs[r].pc = "ready"
    /\ conc' = [conc EXCEPT !.runs[r].pc = "called"]

\* ingest with its error list kept in a module-level list that every run
\* appends to
ConcIngestReturn_SharedErrors(r) ==
    LET run == conc.runs[r]
        own == ingest(run.config)
        seen == {q \in Runs : conc.runs[q].kind = "ingest" /\ conc.runs[q].pc = "returned"}
        errors == [i \in 1..(Cardinality(seen) + 1) |-> own.value.errors[1]]
    IN  /\ run.kind = "ingest"
        /\ run.pc = "called"
        /\ conc' = [conc EXCEPT
                       !.runs[r] = Return(run, IngestResult(own.value.objects, errors,
                                                            own.value.metadata))]

\* thread r evaluates the return statement of ingest
ConcIngestReturn(r) ==
    LET run == conc.runs[r]
    IN  /\ run.kind = "ingest"
        /\ run.pc = "called"
        /\ conc' = [conc EXCEPT !.runs[r] = Return(run, ingest(run.config))]

\* thread r calls get_adapter(config.source)
ConcGetAdapter(r) ==
    LET run == conc.runs[r]
        a == get_adapter(run.config.source)
    IN  /\ run.kind = "adapter"
        /\ run.pc = "ready"
        /\ conc' = [conc EXCEPT
                       !.runs[r] = IF a.raised THEN Return(run, a)
                                   ELSE [run EXCEPT !.pc = "got", !.adapter = a]]

\* thread r calls adapter.fetch(config.data_path)
ConcFetch(r) ==
    LET run == conc.runs[r]
        f == Fetch(run.adapter.cls, run.config.data_path)
    IN  /\ run.pc = "got"
        /\ conc' = [conc EXCEPT
                       !.runs[r] = IF f.raised THEN Return(run, f)
                                   ELSE [run EXCEPT !.pc = "fetched", !.raw = f]]

\* thread r calls adapter.normalize(raw)
ConcNormalize(r) ==
    LET run == conc.runs[r]
    IN  /\ run.pc = "fetched"
        /\ conc' = [conc EXCEPT
                       !.runs[r] = Return(run, Normalize(run.adapter.cls, run.raw.value))]

----------------------------------------------------------------------------
(* Specification: a session exercises one layer on one data file            *)

SchemaOff == fn = "off" /\ arg = <<>> /\ outcome = NotCalled

PipelineOff ==
    /\ stage = "Off"
    /\ config = NoPrev.config
    /\ result = NotCalled
    /\ prev = NoPrev

ConcOff == conc = NoConc

AdapterOff ==
    /\ apc = "off"
    /\ source = ""
    /\ adapter = NotCalled
    /\ raw = NotCalled
    /\ normalized = NotCalled
    /\ aprev = NoRun

InitSchema ==
    /\ arg \in Inputs
    /\ fn = ""
    /\ outcome = NotCalled
    /\ fs = IsFile("missing", <<>>)
    /\ PipelineOff
    /\ AdapterOff
    /\ ConcOff

InitPipeline ==
    /\ fs \in Contents
    /\ config \in Configs
    /\ stage = "Idle"
    /\ result = NotCalled
    /\ prev = NoPrev
    /\ SchemaOff
    /\ AdapterOff
    /\ ConcOff

InitAdapter ==
    /\ fs \in Contents
    /\ source \in Sources
    /\ apc = "idle"
    /\ adapter = NotCalled
    /\ raw = NotCalled
    /\ normalized = NotCalled
    /\ aprev = NoRun
    /\ SchemaOff
    /\ PipelineOff
    /\ ConcOff

InitConcurrent ==
    /\ fs \in ConcContents
    /\ conc \in {[registry |-> ADAPTERS, types |-> ATTACK_OBJECT_TYPES, runs |-> runs] :
                    runs \in [1..NumRuns -> {NewRun(k, c) : k \in RunKinds, c \in ConcConfigs}]}
    /\ SchemaOff
    /\ PipelineOff
    /\ AdapterOff

Init == InitSchema \/ InitPipeline \/ InitAdapter \/ InitConcurrent

Next ==
    \/ CallBaseNodeValidate /\ UNCHANGED <<fs, conc, pipelineVars, adapterVars>>
    \/ CallSTIXObjectValidate /\ UNCHANGED <<fs, conc, pipelineVars, adapterVars>>
    \/ CallBaseEdgeValidate /\ UNCHANGED <<fs, conc, pipelineVars, adapterVars>>
    \/ CallSTIXRelationshipValidate /\ UNCHANGED <<fs, conc, pipelineVars, adapterVars>>
    \/ CallValidateStixObject /\ UNCHANGED <<fs, conc, pipelineVars, adapterVars>>
    \/ CallGetAdapter /\ UNCHANGED <<fs, conc, schemaVars, pipelineVars>>
    \/ CallFetch /\ UNCHANGED <<fs, conc, schemaVars, pipelineVars>>
    \/ CallNormalize /\ UNCHANGED <<fs, conc, schemaVars, pipelineVars>>
    \/ AdapterAgain /\ UNCHANGED <<fs, conc, schemaVars, pipelineVars>>
    \/ CallIngest /\ UNCHANGED <<fs, conc, schemaVars, adapterVars>>
    \/ RunAgain /\ UNCHANGED <<fs, conc, schemaVars, adapterVars>>
    \/ (\E r \in Runs : ConcCallIngest(r)) /\ UNCHANGED <<fs, schemaVars, pipelineVars, adapterVars>>
    \/ (\E r \in Runs : ConcIngestReturn(r)) /\ UNCHANGED <<fs, schemaVars, pipelineVars, adapterVars>>
    \/ (\E r \in Runs : ConcGetAdapter(r)) /\ UNCHANGED <<fs, schemaVars, pipelineVars, adapterVars>>
    \/ (\E r \in Runs : ConcFetch(r)) /\ UNCHANGED <<fs, schemaVars, pipelineVars, adapterVars>>
    \/ (\E r \in Runs : ConcNormalize(r)) /\ UNCHANGED <<fs, schemaVars, pipelineVars, adapterVars>>

Spec == Init /\ [][Next]_vars

----------------------------------------------------------------------------
(* Claims about the schema layer *)

\* s has the form t--u with u a lowercase 8-4-4-4-12 hex UUID
IsStixIdForm(s) == MatchUpTo(s, Len(s))

\* the t of an id of the form t--u
TypePart(s) == SubSeq(s, 1, Len(s) - 38)

TypeMismatchTmpl == "STIX ID type mismatch: ID has '{}', but type field is '{}'"

RejectedWith(tmpl) ==
    outcome.raised /\ outcome.exc = "ValidationError" /\ outcome.msg.tmpl = tmpl

SourceRef == Get(arg, "source_ref", EmptyStr)
TargetRef == Get(arg, "target_ref", EmptyStr)

IsEdgeCall ==
    \/ fn \in {"BaseEdge.validate", "STIXRelationship.validate"}
    \/ fn = "validate_stix_object" /\ Get(arg, "type", Absent) = Relationship

\* C2: every edge whose source_ref equals its target_ref is rejected by
\* BaseEdge.validate, by STIXRelationship.validate and by validate_stix_object
\* on a relationship object, whatever its other fields.
C2_SelfLoopRejected ==
    (IsEdgeCall /\ SourceRef = TargetRef) =>
        outcome.raised /\ outcome.exc = "ValidationError"

\* a self-loop between well-formed ids, otherwise valid, was rejected as such
C2_Witness ==
    /\ fn = "STIXRelationship.validate"
    /\ SourceRef = TargetRef
    /\ STIX_ID_PATTERN(SourceRef)
    /\ arg["relationship_type"] = Uses
    /\ Get(arg, "type", Relationship) = Relationship
    /\ RejectedWith("Self-referential edge not allowed: {}")

\* A rule is a raise statement of the validators: its message template and
\* whether the object meets its condition.  Rules are listed in the order of
\* the source text.
Rule(tmpl, violated) == [tmpl |-> tmpl, violated |-> violated]

NodeRules(o) ==
    <<Rule("Node ID cannot be empty", Falsy(o.id)),
      Rule("Node type cannot be empty", Falsy(o.type))>>

StixNodeRules(o) ==
    NodeRules(o) \o
    <<Rule("Invalid STIX ID format: {}. Expected pattern: <type>--<uuid>",
           ~STIX_ID_PATTERN(o.id)),
      Rule(TypeMismatchTmpl, SplitFirst(o.id) # o.type),
      Rule("Unknown STIX type: {}. Known types: ...", o.type \notin ATTACK_OBJECT_TYPES)>>

EdgeRules(o) ==
    <<Rule("Edge source_ref cannot be empty", Falsy(o.source_ref)),
      Rule("Edge target_ref cannot be empty", Falsy(o.target_ref)),
      Rule("Edge relationship_type cannot be empty", Falsy(o.relationship_type)),
      Rule("Self-referential edge not allowed: {}", o.source_ref = o.target_ref)>>

StixEdgeRules(o) ==
    EdgeRules(o) \o
    <<Rule("STIX relationship type must be 'relationship', got '{}'",
           o.type # Relationship),
      Rule("Invalid source_ref STIX ID: {}", ~STIX_ID_PATTERN(o.source_ref)),
      Rule("Invalid target_ref STIX ID: {}", ~STIX_ID_PATTERN(o.target_ref))>>

RawRules(o) ==
    <<Rule("STIX object missing 'type' field", "type" \notin DOMAIN o),
      Rule("STIX object missing 'id' field", "id" \notin DOMAIN o)>>
    \o (IF NodeKeys \subseteq DOMAIN o
        THEN IF o["type"] = Relationship
             THEN StixEdgeRules(RelFromDict(o))
             ELSE StixNodeRules(NodeFromDict(o))
        ELSE <<>>)

\* the rules that apply to the object of the call
RulesOfCall ==
    CASE fn = "BaseNode.validate" -> NodeRules(arg)
      [] fn = "STIXObject.validate" -> StixNodeRules(arg)
      [] fn = "BaseEdge.validate" -> EdgeRules(arg)
      [] fn = "STIXRelationship.validate" -> StixEdgeRules(RelFromFields(arg))
      [] fn = "validate_stix_object" -> RawRules(arg)
      [] OTHER -> <<>>

Violated == {i \in DOMAIN RulesOfCall : RulesOfCall[i].violated}

FirstViolated == CHOOSE i \in Violated : \A j \in Violated : i <= j

\* the reasons the caller gets: a raised ValidationError carries one message
Reasons == IF outcome.raised THEN <<outcome.msg>> ELSE <<>>

Called == fn \notin {"", "off"}

\* C3 as stated: validation never raises, and a malformed object gets one
\* reason for each rule it violates.
C3_AsStated ==
    Called => (~outcome.raised /\ Len(Reasons) = Cardinality(Violated))

\* C3 amended: validation of a malformed object raises ValidationError with
\* exactly one reason, that of the first rule the object violates in the
\* order of the checks; an object that violates several rules gets only that
\* first reason reported; an object that violates no rule is accepted
\* without an exception.
C3_RaisesFirstViolationOnly ==
    Called =>
        /\ outcome.raised <=> Violated # {}
        /\ outcome.raised =>
              /\ outcome.exc = "ValidationError"
              /\ Len(Reasons) = 1
              /\ outcome.msg.tmpl = RulesOfCall[FirstViolated].tmpl

\* a relationship with an empty relationship_type and an ill-formed
\* target_ref was validated and one reason came back
C3_Witness ==
    /\ fn = "validate_stix_object"
    /\ NodeKeys \subseteq DOMAIN arg
    /\ arg["type"] = Relationship
    /\ STIX_ID_PATTERN(SourceRef)
    /\ Get(arg, "relationship_type", EmptyStr) = EmptyStr
    /\ TargetRef = InvalidId
    /\ Cardinality(Violated) >= 2
    /\ Len(Reasons) = 1

----------------------------------------------------------------------------
(* Claims about the pipeline layer *)

\* the run of the current configuration has returned
RunReturned == stage = "Done" /\ ~result.raised

\* the batch of the run: the object list of the bundle at config.data_path
\* (empty when the file holds none)
BatchOfRun ==
    LET file == FileAt(config.data_path)
    IN  IF file.kind = "json" /\ "objects" \in DOMAIN file.data
        THEN file.data["objects"] ELSE <<>>

Accepted == result.value.objects
Diagnostics == result.value.errors

InSeq(x, seq) == \E i \in DOMAIN seq : seq[i] = x

SchemaValid(o) == ~validate_stix_object(o).raised

IsRelationshipObj(o) == Get(o, "type", Absent) = Relationship

\* ids of the schema-valid nodes of the batch
NodeIds(batch) ==
    {batch[i]["id"] : i \in {j \in DOMAIN batch :
                                SchemaValid(batch[j]) /\ ~IsRelationshipObj(batch[j])}}

Resolves(o, batch) ==
    o["source_ref"] \in NodeIds(batch) /\ o["target_ref"] \in NodeIds(batch)

\* a schema-valid relationship with an endpoint that is no node of the batch
Dangling(o, batch) ==
    SchemaValid(o) /\ IsRelationshipObj(o) /\ ~Resolves(o, batch)

\* the objects a run has to accept: schema-valid nodes, and schema-valid
\* relationships whose endpoints resolve
Acceptable(o, batch) ==
    SchemaValid(o) /\ (IsRelationshipObj(o) => Resolves(o, batch))

\* the diagnostics of one kind about one edge
EdgeDiagnostics(kind, o) ==
    {i \in DOMAIN Diagnostics :
        /\ Diagnostics[i].tmpl = kind
        /\ Diagnostics[i].args = <<o["source_ref"], o["target_ref"]>>}

\* the subsequence of the objects of seq that the run has to accept
RECURSIVE AcceptableOf(_, _)
AcceptableOf(seq, batch) ==
    IF seq = <<>> THEN <<>>
    ELSE (IF Acceptable(Head(seq), batch) THEN <<Head(seq)>> ELSE <<>>)
             \o AcceptableOf(Tail(seq), batch)

\* C4: a relationship with an endpoint that matches no node id of the batch
\* is not among the accepted objects and has exactly one DanglingReference
\* diagnostic, while every valid node of the batch is accepted.
C4_DanglingEdgeDropped ==
    (RunReturned /\ config.source = "attack"
        /\ \A i \in DOMAIN BatchOfRun : SchemaValid(BatchOfRun[i])) =>
        \A i \in DOMAIN BatchOfRun :
            LET o == BatchOfRun[i]
            IN  /\ Dangling(o, BatchOfRun) =>
                      /\ ~InSeq(o, Accepted)
                      /\ Cardinality(EdgeDiagnostics("DanglingReference", o)) = 1
                /\ ~IsRelationshipObj(o) => InSeq(o, Accepted)

\* C5: with fail_on_invalid set and a schema violation in the batch, the
\* Result has no accepted object and a diagnostic for every rejected object.
C5_FailOnInvalidEmptiesResult ==
    (RunReturned /\ config.source = "attack" /\ config.validate
        /\ config.fail_on_invalid
        /\ \E i \in DOMAIN BatchOfRun : ~SchemaValid(BatchOfRun[i])) =>
        /\ Accepted = <<>>
        /\ \A i \in DOMAIN BatchOfRun :
              ~SchemaValid(BatchOfRun[i]) =>
                  InSeq(validate_stix_object(BatchOfRun[i]).msg, Diagnostics)

\* C6: with fail_on_invalid off, the accepted objects are exactly the objects
\* of the batch that pass validation (edges: whose endpoints also resolve).
C6_MaximalValidSubset ==
    (RunReturned /\ config.source = "attack" /\ config.validate
        /\ ~config.fail_on_invalid) =>
        Accepted = AcceptableOf(BatchOfRun, BatchOfRun)

\* IngestConfig has no strict_triples field: no run is in strict mode
StrictTriples(cfg) == FALSE

\* no allow-list can be configured: no triple is in it
AllowList == {}

TypeOfId(id, batch) ==
    LET i == CHOOSE j \in DOMAIN batch : Get(batch[j], "id", Absent) = id
    IN  batch[i]["type"]

Triple(o, batch) ==
    <<TypeOfId(o["source_ref"], batch), o["relationship_type"],
      TypeOfId(o["target_ref"], batch)>>

\* C7: a relationship whose endpoints resolve and whose type triple is not in
\* the allow-list stays accepted with one UnrecognizedTriple diagnostic in
\* non-strict mode, and is rejected in strict mode.
C7_UnrecognizedTripleHandled ==
    (RunReturned /\ config.source = "attack" /\ config.validate
        /\ \A i \in DOMAIN BatchOfRun : SchemaValid(BatchOfRun[i])) =>
        \A i \in DOMAIN BatchOfRun :
            LET o == BatchOfRun[i]
            IN  (IsRelationshipObj(o) /\ Resolves(o, BatchOfRun)
                    /\ Triple(o, BatchOfRun) \notin AllowList) =>
                    IF StrictTriples(config)
                    THEN ~InSeq(o, Accepted)
                    ELSE /\ InSeq(o, Accepted)
                         /\ Cardinality(EdgeDiagnostics("UnrecognizedTriple", o)) = 1

\* two outcomes with the same content
SameOutcome(a, b) ==
    /\ a.raised = b.raised
    /\ a.exc = b.exc
    /\ a.cls = b.cls
    /\ a.msg.tmpl = b.msg.tmpl
    /\ a.msg.args = b.msg.args
    /\ a.value = b.value

SameFile(a, b) == a.kind = b.kind /\ a.data = b.data

\* the current pipeline run has ended and repeats the previous one
RepeatedRun ==
    /\ stage \in {"Done", "Aborted"}
    /\ prev.result.cls # ""
    /\ prev.config = config
    /\ SameFile(prev.input, FileAt(config.data_path))

\* the current adapter run has ended and repeats the previous one
RepeatedAdapterRun ==
    /\ apc \in {"raised", "normalized"}
    /\ aprev.source = source
    /\ SameFile(aprev.input, FileAt(DataPath))

C9_UnknownSourceRaises ==
    (stage \in {"Done", "Aborted"} /\ config.source \notin DOMAIN ADAPTERS) =>
        /\ result.raised
        /\ result.exc = "ValueError"
        /\ result.msg.tmpl = "Unknown source: {}. Available: {}"

\* the stage changes the claimed state machine allows (a caller may start a
\* new run once the last one has ended)
StageOrder ==
    {<<"Idle", "Fetching">>, <<"Fetching", "Normalizing">>,
     <<"Normalizing", "Validating">>, <<"Validating", "CheckingIntegrity">>,
     <<"CheckingIntegrity", "Done">>,
     <<"Fetching", "Aborted">>, <<"Normalizing", "Aborted">>,
     <<"Validating", "Aborted">>,
     <<"Done", "Idle">>, <<"Aborted", "Idle">>}

\* C10: a run passes through Idle, Fetching, Normalizing, Validating and
\* CheckingIntegrity in that order before it ends in Done, and enters
\* Aborted only from Fetching, Normalizing or Validating.
C10_StagesInOrder ==
    [][stage' # stage => <<stage, stage'>> \in StageOrder]_vars

----------------------------------------------------------------------------
(* Further claims about the schema layer *)

\* the relationship the call validated
RelOfCall ==
    IF fn = "validate_stix_object" THEN RelFromDict(arg) ELSE RelFromFields(arg)

IsStixRelCall ==
    \/ fn = "STIXRelationship.validate"
    \/ fn = "validate_stix_object" /\ NodeKeys \subseteq DOMAIN arg
          /\ arg["type"] = Relationship

\* every field of the relationship other than ref is in order, and the
\* two refs differ
RestInOrder(rel) ==
    /\ ~Falsy(rel.source_ref)
    /\ ~Falsy(rel.target_ref)
    /\ ~Falsy(rel.relationship_type)
    /\ rel.source_ref # rel.target_ref
    /\ rel.type = Relationship

IsStixNodeCall ==
    \/ fn = "STIXObject.validate"
    \/ fn = "validate_stix_object" /\ NodeKeys \subseteq DOMAIN arg
          /\ arg["type"] # Relationship

\* C12: a STIX node is accepted only if its declared type is in
\* ATTACK_OBJECT_TYPES; a node whose id is well formed and whose id prefix
\* equals its type, with the type outside the set, is rejected with the
\* unknown-type error.
C12_OnlyKnownTypesAccepted ==
    IsStixNodeCall =>
        /\ ~outcome.raised => arg["type"] \in ATTACK_OBJECT_TYPES
        /\ (STIX_ID_PATTERN(arg["id"]) /\ SplitFirst(arg["id"]) = arg["type"]
                /\ arg["type"] \notin ATTACK_OBJECT_TYPES) =>
              RejectedWith("Unknown STIX type: {}. Known types: ...")

\* unknown-type--<uuid> with type unknown-type was rejected as unknown
C12_Witness ==
    /\ fn = "STIXObject.validate"
    /\ arg["type"] = UnknownType
    /\ arg["id"] = UnknownType \o Dash2 \o UuidOf("1")
    /\ RejectedWith("Unknown STIX type: {}. Known types: ...")

----------------------------------------------------------------------------
(* C13: for every registered adapter, fetch on a missing or unreadable      *)
(* location fails with FileNotFoundError and returns no data.  Stated over  *)
(* the adapter session: once fetch has been called on such a location, its  *)
(* outcome is a raised FileNotFoundError.                                    *)

FetchCalled == apc # "off" /\ raw # NotCalled

C13_MissingLocationRaisesFileNotFound ==
    (FetchCalled /\ FileAt(DataPath).kind \in {"missing", "unreadable"}) =>
        /\ raw.raised
        /\ raw.exc = "FileNotFoundError"

----------------------------------------------------------------------------
(* C14: AttackAdapter.normalize returns exactly the bundle's object list,   *)
(* in the same order, and fails with ValueError when the input has no        *)
(* "objects" entry.                                                          *)

NormalizeCalled ==
    apc # "off" /\ normalized # NotCalled /\ adapter.cls = "AttackAdapter"

C14_NormalizeReturnsObjectList ==
    NormalizeCalled =>
        IF "objects" \in DOMAIN fs.data
        THEN /\ ~normalized.raised
             /\ Len(normalized.value) = Len(fs.data["objects"])
             /\ \A i \in 1..Len(normalized.value) :
                    normalized.value[i] = fs.data["objects"][i]
        ELSE /\ normalized.raised
             /\ normalized.exc = "ValueError"

C14_Witness ==
    /\ NormalizeCalled
    /\ ~normalized.raised
    /\ Len(normalized.value) >= 2
    /\ normalized.value[1] # normalized.value[2]

C14_WitnessNoObjects ==
    /\ NormalizeCalled
    /\ normalized.raised
    /\ "objects" \notin DOMAIN fs.data

----------------------------------------------------------------------------
(* C15: every diagnostic names the offending entity: the message of a       *)
(* rejected node contains the node's id, and the message of a rejected edge *)
(* contains its source_ref and its target_ref.                               *)

\* s occurs in t (Python's s in t, for strings)
IsSubstring(s, t) ==
    \E k \in 0..(Len(t) - Len(s)) : SubSeq(t, k + 1, k + Len(s)) = s

\* the formatted message contains s: the fixed text of the templates holds no
\* id, so s is in the message when it is in one of the formatted values
Mentions(msg, s) ==
    \/ s = EmptyStr
    \/ \E i \in DOMAIN msg.args : IsSubstring(s, msg.args[i])

IsNodeCall ==
    \/ fn \in {"BaseNode.validate", "STIXObject.validate"}
    \/ fn = "validate_stix_object" /\ Get(arg, "type", Absent) # Relationship

C15_DiagnosticNamesEntity ==
    (Called /\ outcome.raised) =>
        /\ IsNodeCall => Mentions(outcome.msg, Get(arg, "id", EmptyStr))
        /\ IsEdgeCall =>
                /\ Mentions(outcome.msg, SourceRef)
                /\ Mentions(outcome.msg, TargetRef)

----------------------------------------------------------------------------
(* C17: an "attack" run over a bundle whose objects are all schema-valid    *)
(* and resolved returns an empty error list (is_valid) and, as objects, the *)
(* objects of the bundle.                                                    *)

AllAcceptable(batch) == \A i \in DOMAIN batch : Acceptable(batch[i], batch)

IsBundleFile(file) == file.kind = "json" /\ "objects" \in DOMAIN file.data

C17_ValidBundleRunIsValid ==
    (/\ RunReturned
     /\ config.source = "attack"
     /\ IsBundleFile(FileAt(config.data_path))
     /\ AllAcceptable(BatchOfRun)) =>
        /\ is_valid(result)
        /\ Accepted = BatchOfRun

----------------------------------------------------------------------------
(* C19: every id that STIXObject.validate accepts is exactly the declared   *)
(* type, then "--", then one UUID.                                           *)

\* the last 36 characters of s (all of s when it is shorter)
Last36(s) == IF Len(s) >= 36 THEN SubSeq(s, Len(s) - 35, Len(s)) ELSE s

C19_AcceptedIdIsTypeAndUuid ==
    (fn = "STIXObject.validate" /\ ~outcome.raised) =>
        /\ MatchUuid(Last36(arg.id))
        /\ arg.id = arg.type \o Dash2 \o Last36(arg.id)

----------------------------------------------------------------------------
(* C20: for a raw object of type "relationship" that has an "id" key, the   *)
(* outcome of validate_stix_object (accepted, or the error raised) depends  *)
(* only on source_ref, target_ref and relationship_type: the same object    *)
(* with any other id value, with or without further fields, gets the same   *)
(* outcome; and the object is never returned as a node.                      *)

\* accepted, or the error raised
Verdict(o) == [raised |-> o.raised, exc |-> o.exc, msg |-> o.msg]

IsRawRelationshipCall ==
    /\ fn = "validate_stix_object"
    /\ NodeKeys \subseteq DOMAIN arg
    /\ arg["type"] = Relationship

\* id values a raw relationship may carry
OtherIds == {Id3, InvalidId, EmptyStr, NoneVal, Id1}

\* further fields of a raw object, as maps to merge into it
OtherFields ==
    {<<>>,
     [created |-> <<"2", "0", "2", "4">>],
     [name |-> <<"x">>, spec_version |-> <<"2", ".", "1">>]}

\* obj with the entries of more added (dict union, obj's entries first)
WithFields(obj, more) ==
    [k \in DOMAIN obj \cup DOMAIN more |->
        IF k \in DOMAIN obj THEN obj[k] ELSE more[k]]

C20_RelationshipOutcomeIgnoresId ==
    IsRawRelationshipCall =>
        /\ \A i \in OtherIds :
           \A more \in OtherFields :
              Verdict(validate_stix_object(
                          WithFields([arg EXCEPT !["id"] = i], more)))
                  = Verdict(outcome)
        /\ outcome.cls # "STIXObject"

C20_Witness ==
    /\ IsRawRelationshipCall
    /\ arg["id"] = InvalidId
    /\ ~outcome.raised
    /\ outcome.cls = "STIXRelationship"

----------------------------------------------------------------------------
(* C18: the schema rules are evaluated in the fixed order presence of the   *)
(* required fields, non-emptiness of the required fields, self-loop, then   *)
(* grammar (nodes: id grammar, prefix/type match, known type;               *)
(* relationships: type literal, source_ref grammar, target_ref grammar);    *)
(* the reason reported for an object is that of its earliest violated rule. *)

\* the place of a reason in the stated order
RuleRank(tmpl) ==
    CASE tmpl \in {"STIX object missing 'type' field",
                   "STIX object missing 'id' field"} -> 1
      [] tmpl \in {"Node ID cannot be empty", "Node type cannot be empty",
                   "Edge source_ref cannot be empty",
                   "Edge target_ref cannot be empty",
                   "Edge relationship_type cannot be empty"} -> 2
      [] tmpl = "Self-referential edge not allowed: {}" -> 3
      [] tmpl \in {"Invalid STIX ID format: {}. Expected pattern: <type>--<uuid>",
                   "STIX relationship type must be 'relationship', got '{}'"} -> 4
      [] tmpl \in {TypeMismatchTmpl, "Invalid source_ref STIX ID: {}"} -> 5
      [] tmpl \in {"Unknown STIX type: {}. Known types: ...",
                   "Invalid target_ref STIX ID: {}"} -> 6
      [] OTHER -> 7

\* the places of the rules that the object of the call violates, a field
\* that a raw relationship lacks counting as an empty one
ViolatedRanks == {RuleRank(RulesOfCall[i].tmpl) : i \in Violated}

\* the required edge fields that a raw relationship lacks
MissingEdgeFields ==
    IF fn = "validate_stix_object" /\ Get(arg, "type", Absent) = Relationship
    THEN EdgeKeys \ DOMAIN arg
    ELSE {}

\* the same, with the presence of each required edge field as a rule of the
\* first family
StatedViolatedRanks ==
    ViolatedRanks \cup (IF MissingEdgeFields # {} THEN {1} ELSE {})

\* C18 as stated: the reported reason is a presence reason whenever a
\* required field, of a node or of an edge, is absent.
C18_AsStated ==
    (Called /\ StatedViolatedRanks # {}) =>
        /\ outcome.raised
        /\ \A r \in StatedViolatedRanks : RuleRank(outcome.msg.tmpl) <= r

\* C18, amended: a raw relationship that lacks source_ref, target_ref or
\* relationship_type is treated as having that field empty, and with that
\* the reported reason is that of the earliest violated rule.
C18_ReportsEarliestViolated ==
    (Called /\ ViolatedRanks # {}) =>
        /\ outcome.raised
        /\ \E i \in Violated : RulesOfCall[i].tmpl = outcome.msg.tmpl
        /\ \A r \in ViolatedRanks : RuleRank(outcome.msg.tmpl) <= r

C18_Witness ==
    /\ IsRawRelationshipCall
    /\ "target_ref" \notin DOMAIN arg
    /\ SourceRef = InvalidId
    /\ Cardinality(ViolatedRanks) >= 2
    /\ RejectedWith("Edge target_ref cannot be empty")

----------------------------------------------------------------------------
(* C16: concurrent pipeline runs share no mutable state: under every        *)
(* interleaving, each run returns the result it returns when run alone, and *)
(* the adapter registry and the recognized-type set stay as they were.       *)

\* what the run returns when no other run exists: the calls made one after
\* another on the run's configuration
AloneResult(run) ==
    IF run.kind = "ingest" THEN ingest(run.config)
    ELSE LET a == get_adapter(run.config.source)
         IN  IF a.raised THEN a
             ELSE LET f == Fetch(a.cls, run.config.data_path)
                  IN  IF f.raised THEN f ELSE Normalize(a.cls, f.value)

====
